---- MODULE Spec2Model ----
(***************************************************************************)
(* Model of the call-recording pipeline: fetch_recordings.py (locate,      *)
(* download, sniff, crop) and Transcription.py (token, download,           *)
(* transcribe, collect).                                                    *)
(*                                                                         *)
(* Python values:                                                          *)
(*   str / bytes  a sequence of one-character strings / of integers 0..255 *)
(*   Optional[T]  None is <<>>, a value v is <<v>>                          *)
(***************************************************************************)
EXTENDS Integers, Sequences, FiniteSets, TLC

VARIABLES
    prog,          \* which entry point runs: "sniff", "crop", "fetch", "transcribe"
    pc,            \* position of the running entry point
    files,         \* the file system: path -> bytes (a path outside DOMAIN does not exist)
    path,          \* audio_path / dest_path / tmp_path of the current call or iteration
    out,           \* value returned by the function under check (sniff, crop)
    args,          \* crop: the timestamps the call was given; transcribe: the credentials
    snap,          \* history: the file system before the last call that may write (at the
                   \* start of an iteration: as the iteration found it)
    calls,         \* history: the external calls made so far, in order
    idx,           \* loop: the number of rows the iterator has yielded
    nrows,         \* loop: the number of rows of the input
    row,           \* loop: the current row
    recording_id,  \* fetch: recording_id of the iteration
    public_url,    \* fetch: public_url of the iteration
    resp,          \* the HTTP response the last request received
    access_token,  \* transcribe: access_token
    results,       \* transcribe: results
    output,        \* transcribe: what was written to OUTPUT_EXCEL (None: nothing)
    rows           \* transcribe, history: the rows yielded so far

vars == <<prog, pc, files, path, out, args, snap, calls, idx, nrows, row, recording_id,
          public_url, resp, access_token, results, output, rows>>

loopVars == <<idx, nrows, row, recording_id, public_url, resp>>
transVars == <<access_token, results, output, rows>>

\* the values of the variables an entry point does not use
Idle ==
    /\ idx = 0 /\ nrows = 0 /\ row = <<>> /\ recording_id = <<>> /\ public_url = <<>>
    /\ resp = <<>> /\ access_token = <<>> /\ results = <<>> /\ output = <<>>
    /\ rows = <<>>

None == <<>>
Some(v) == <<v>>

----------------------------------------------------------------------------
(* str and bytes helpers, computed as CPython computes them *)

MinOf(S) == CHOOSE x \in S : \A y \in S : x <= y
MaxOf(S) == CHOOSE x \in S : \A y \in S : x >= y

\* s[lo:hi] with 0-based, end-exclusive, clamped Python slice bounds
Slice(s, lo, hi) ==
    LET h == IF hi > Len(s) THEN Len(s) ELSE hi
    IN IF lo >= h THEN <<>> ELSE SubSeq(s, lo + 1, h)

\* str.strip(): drop leading and trailing whitespace
str_strip(s) ==
    LET keep == {k \in 1..Len(s) : s[k] # " "}
    IN IF keep = {} THEN <<>> ELSE SubSeq(s, MinOf(keep), MaxOf(keep))

\* str.lstrip("."): drop leading dots
str_lstrip_dot(s) ==
    LET keep == {k \in 1..Len(s) : s[k] # "."}
    IN IF keep = {} THEN <<>> ELSE SubSeq(s, MinOf(keep), Len(s))

lower_char(c) ==
    CASE c = "A" -> "a" [] c = "B" -> "b" [] c = "C" -> "c" [] c = "D" -> "d"
      [] c = "E" -> "e" [] c = "F" -> "f" [] c = "G" -> "g" [] c = "H" -> "h"
      [] c = "I" -> "i" [] c = "J" -> "j" [] c = "K" -> "k" [] c = "L" -> "l"
      [] c = "M" -> "m" [] c = "N" -> "n" [] c = "O" -> "o" [] c = "P" -> "p"
      [] c = "Q" -> "q" [] c = "R" -> "r" [] c = "S" -> "s" [] c = "T" -> "t"
      [] c = "U" -> "u" [] c = "V" -> "v" [] c = "W" -> "w" [] c = "X" -> "x"
      [] c = "Y" -> "y" [] c = "Z" -> "z"
      [] OTHER -> c

\* str.lower()
str_lower(s) == [k \in 1..Len(s) |-> lower_char(s[k])]

\* index (1-based) of the first element of s that is in cs, 0 when there is none
FindFirst(s, cs) ==
    LET hit == {k \in 1..Len(s) : s[k] \in cs}
    IN IF hit = {} THEN 0 ELSE MinOf(hit)

\* index (1-based) of the last element of s that is in cs, 0 when there is none
FindLast(s, cs) ==
    LET hit == {k \in 1..Len(s) : s[k] \in cs}
    IN IF hit = {} THEN 0 ELSE MaxOf(hit)

\* s.split(sep): the pieces of s between occurrences of the character sep
RECURSIVE str_split(_, _)
str_split(s, sep) ==
    LET k == FindFirst(s, {sep})
    IN IF k = 0 THEN <<s>>
       ELSE <<SubSeq(s, 1, k - 1)>> \o str_split(SubSeq(s, k + 1, Len(s)), sep)

\* a & b on non-negative integers
RECURSIVE BitAnd(_, _)
BitAnd(a, b) ==
    IF a = 0 \/ b = 0 THEN 0
    ELSE (a % 2) * (b % 2) + 2 * BitAnd(a \div 2, b \div 2)

\* pathlib: Path.name, the final component
path_name(p) == SubSeq(p, FindLast(p, {"/"}) + 1, Len(p))

\* pathlib: Path.suffix, the final component's last dot onward ("" for a leading
\* or a trailing dot, or no dot)
path_suffix(p) ==
    LET name == path_name(p)
        i == FindLast(name, {"."})
    IN IF 1 < i /\ i < Len(name) THEN SubSeq(name, i, Len(name)) ELSE <<>>

----------------------------------------------------------------------------
(* fetch_recordings.py: _detect_audio_format *)

b_RIFF == <<82, 73, 70, 70>>
b_WAVE == <<87, 65, 86, 69>>
b_ID3 == <<73, 68, 51>>
b_fLaC == <<102, 76, 97, 67>>

s_text_html == <<"t", "e", "x", "t", "/", "h", "t", "m", "l">>
s_application_json ==
    <<"a", "p", "p", "l", "i", "c", "a", "t", "i", "o", "n", "/", "j", "s", "o", "n">>

s_wav == <<"w", "a", "v">>
s_mp3 == <<"m", "p", "3">>
s_flac == <<"f", "l", "a", "c">>
s_ogg == <<"o", "g", "g">>

\* audio_path.suffix.lower().lstrip(".") or "mp3"
SuffixOrMp3(p) ==
    LET ext == str_lstrip_dot(str_lower(path_suffix(p)))
    IN IF ext # <<>> THEN ext ELSE s_mp3

\* SignatureOf with the frame-sync test reduced to its first byte
SignatureOf_sync1(header) ==
    IF Slice(header, 0, 4) = b_RIFF /\ Slice(header, 8, 12) = b_WAVE THEN Some(s_wav)
    ELSE IF Slice(header, 0, 3) = b_ID3 \/ (Len(header) >= 2 /\ header[1] = 255)
         THEN Some(s_mp3)
    ELSE IF Slice(header, 0, 4) = b_fLaC THEN Some(s_flac)
    ELSE None

\* the signature tests of lines 129-134 on the bytes f.read(12) returned;
\* None when no signature matches
SignatureOf(header) ==
    IF Slice(header, 0, 4) = b_RIFF /\ Slice(header, 8, 12) = b_WAVE THEN Some(s_wav)
    ELSE IF Slice(header, 0, 3) = b_ID3
            \/ (Len(header) >= 2 /\ header[1] = 255 /\ BitAnd(header[2], 224) = 224)
         THEN Some(s_mp3)
    ELSE IF Slice(header, 0, 4) = b_fLaC THEN Some(s_flac)
    ELSE None

\* _detect_audio_format(audio_path) on file system fs: open() raises for a path
\* that does not exist, which the except clause swallows
detect_audio_format(fs, p) ==
    LET sig == IF p \in DOMAIN fs THEN SignatureOf(Slice(fs[p], 0, 12)) ELSE None
    IN IF sig # None THEN sig[1] ELSE SuffixOrMp3(p)

----------------------------------------------------------------------------
(* Specification SpecSniff: one call of _detect_audio_format on a file whose
   first bytes are assembled from 4-byte pieces, cut at every length. *)

MaxTail == 1

Piece0 == {b_RIFF, <<73, 68, 51, 4>>, b_fLaC, <<255, 251, 144, 0>>, <<255, 31, 0, 0>>,
           <<0, 255, 251, 0>>, <<82, 73, 70, 88>>}
Piece1 == {<<36, 0, 0, 0>>}
Piece2 == {b_WAVE, <<65, 86, 73, 32>>}
Tails == {t \in {<<>>, <<7>>, <<87, 65>>, <<1, 2, 3>>} : Len(t) <= MaxTail}

SniffBytes ==
    LET full == {a \o b \o c \o t : a \in Piece0, b \in Piece1, c \in Piece2, t \in Tails}
    IN UNION {{Slice(f, 0, n) : n \in 0..Len(f)} : f \in full}

SniffNames == {<<"a">>, <<"a", ".", "m", "p", "3">>, <<"a", ".", "W", "A", "V">>,
               <<"a", ".", "o", "g", "g">>, <<".", "w", "a", "v">>, <<"a", ".">>,
               <<"d", ".", "x", "/", "a">>}

InitSniff ==
    /\ prog = "sniff"
    /\ pc = "call"
    /\ path \in SniffNames
    /\ files \in {<<>>} \cup {path :> b : b \in SniffBytes}
    /\ out = None
    /\ args = None
    /\ snap = <<>>
    /\ calls = <<>>
    /\ Idle

DetectFormat ==
    /\ prog = "sniff"
    /\ pc = "call"
    /\ out' = Some(detect_audio_format(files, path))
    /\ pc' = "returned"
    /\ UNCHANGED <<prog, files, path, args, snap, calls, loopVars, transVars>>

NextSniff == DetectFormat

SpecSniff == InitSniff /\ [][NextSniff]_vars

\* bytes sig stand at offset off of b
HasAt(b, off, sig) ==
    /\ Len(b) >= off + Len(sig)
    /\ \A k \in 1..Len(sig) : b[off + k] = sig[k]

\* what pathlib and str.lower give for the file names of SniffNames: the
\* lower-cased extension, "mp3" when the name has none
ExtOrMp3Of(name) ==
    CASE name = <<"a", ".", "W", "A", "V">> -> s_wav
      [] name = <<"a", ".", "o", "g", "g">> -> s_ogg
      [] OTHER -> s_mp3

\* C5: _detect_audio_format answers from bytes 0-11 alone: RIFF at 0 and WAVE at
\* 8 give wav; else ID3 at 0, or byte 0 = 0xFF with the top three bits of byte 1
\* set, give mp3; else fLaC at 0 gives flac; else, and for an unreadable file,
\* the lower-cased extension of the name, or mp3 when it has none.
Thm_C5_DetectBySignature ==
    (prog = "sniff" /\ pc = "returned") =>
        LET b == IF path \in DOMAIN files THEN files[path] ELSE <<>>
            wav == HasAt(b, 0, b_RIFF) /\ HasAt(b, 8, b_WAVE)
            mp3 == HasAt(b, 0, b_ID3)
                   \/ (Len(b) >= 2 /\ b[1] = 255 /\ b[2] \div 32 = 7)
            flac == HasAt(b, 0, b_fLaC)
        IN out = Some(IF wav THEN s_wav
                      ELSE IF mp3 THEN s_mp3
                      ELSE IF flac THEN s_flac
                      ELSE ExtOrMp3Of(path))

\* a WAV payload under a .mp3 name is detected as wav
Wit_C5_WavNamedMp3 ==
    /\ prog = "sniff" /\ pc = "returned"
    /\ path = <<"a", ".", "m", "p", "3">>
    /\ path \in DOMAIN files
    /\ HasAt(files[path], 0, b_RIFF) /\ HasAt(files[path], 8, b_WAVE)
    /\ out = Some(s_wav)

----------------------------------------------------------------------------
(* fetch_recordings.py: crop_audio_by_timestamps *)

\* pd.Timestamp: an instant in whole seconds, or NaT
Ts(n) == [nat |-> FALSE, t |-> n]
NaT == [nat |-> TRUE, t |-> 0]

\* (a - b).total_seconds(): a float, nan as soon as either side is NaT
total_seconds(a, b) ==
    IF a.nat \/ b.nat THEN [nan |-> TRUE, v |-> 0] ELSE [nan |-> FALSE, v |-> a.t - b.t]

\* float comparisons: every comparison with nan is False
f_lt0(x) == ~x.nan /\ x.v < 0
f_le(x, y) == ~x.nan /\ ~y.nan /\ x.v <= y.v

\* first bytes an encoder writes for a container format (0 where the model
\* tells no format apart)
Magic(fmt) ==
    CASE fmt = s_wav -> b_RIFF \o <<36, 0, 0, 0>> \o b_WAVE
      [] fmt = s_mp3 -> b_ID3 \o <<4>>
      [] fmt = s_flac -> b_fLaC
      [] fmt = s_ogg -> <<79, 103, 103, 83>>
      [] OTHER -> <<0>>

\* bytes of an exported segment of len_ms milliseconds
Encoded(fmt, len_ms) == Magic(fmt) \o <<(len_ms \div 1000) % 256>>

\* audio[start_ms:end_ms] on a segment of dur_ms milliseconds: its length
SliceLen(dur_ms, start_ms, end_ms) ==
    LET lo == IF start_ms > dur_ms THEN dur_ms ELSE start_ms
        hi == IF end_ms > dur_ms THEN dur_ms ELSE end_ms
    IN IF hi > lo THEN hi - lo ELSE 0

\* invalid_range with the end test made strict
invalid_range_strict(start_sec, end_sec) ==
    f_lt0(start_sec) \/ (~end_sec.nan /\ ~start_sec.nan /\ end_sec.v < start_sec.v)

\* line 152: start_sec < 0 or end_sec <= start_sec
invalid_range(start_sec, end_sec) == f_lt0(start_sec) \/ f_le(end_sec, start_sec)

ExportOutcomes == {"ok", "raise_open", "raise_encode"}

\* cropped.export(str(audio_path), format=out_fmt), line 163: the destination is
\* the source path itself. The library opens it for writing (truncating it) and
\* then encodes: a failure to open leaves the file, a failure to encode leaves
\* it truncated.
export_in_place(fs, p, out_fmt, len_ms, outcome) ==
    CASE outcome = "ok" -> [fs EXCEPT ![p] = Encoded(out_fmt, len_ms)]
      [] outcome = "raise_open" -> fs
      [] OTHER -> [fs EXCEPT ![p] = <<>>]

\* crop_audio_by_timestamps(audio_path, call_start, customer_pickup, call_end)
\* on file system fs; decode is what AudioSegment.from_file does (None: raises,
\* Some(d): a segment of d ms), export what cropped.export does.
\* Gives [ret: the returned bool, fs: the file system after, calls: the library
\* calls made].
crop_audio_by_timestamps(fs, audio_path, call_start, customer_pickup, call_end, decode, export) ==
    IF call_start = None \/ customer_pickup = None \/ call_end = None
    THEN [ret |-> FALSE, fs |-> fs, calls |-> <<>>]
    ELSE
    LET start_sec == total_seconds(customer_pickup[1], call_start[1])
        end_sec == total_seconds(call_end[1], call_start[1])
    IN
    IF invalid_range(start_sec, end_sec)
    THEN [ret |-> FALSE, fs |-> fs, calls |-> <<>>]
    ELSE IF start_sec.nan \/ end_sec.nan
    THEN \* int(nan * 1000) raises ValueError inside the try
         [ret |-> FALSE, fs |-> fs, calls |-> <<>>]
    ELSE
    LET start_ms == start_sec.v * 1000
        end_ms == end_sec.v * 1000
        fmt == detect_audio_format(fs, audio_path)
        from_file == [fn |-> "from_file", ok |-> decode # None]
    IN
    IF audio_path \notin DOMAIN fs \/ decode = None
    THEN [ret |-> FALSE, fs |-> fs, calls |-> <<from_file>>]
    ELSE
    LET out_fmt == SuffixOrMp3(audio_path)
        len_ms == SliceLen(decode[1], start_ms, end_ms)
    IN [ret |-> export = "ok",
        fs |-> export_in_place(fs, audio_path, out_fmt, len_ms, export),
        calls |-> <<from_file, [fn |-> "export", ok |-> export = "ok"]>>]

----------------------------------------------------------------------------
(* Specification SpecCrop: one call of crop_audio_by_timestamps, for every
   combination of timestamps, on a file that exists. *)

MaxT == 2
MaxDur == 2

TsOpt == {None, Some(NaT)} \cup {Some(Ts(n)) : n \in 0..MaxT}
DecodeOutcomes == {None} \cup {Some(d * 1000) : d \in 0..MaxDur}

\* what AudioSegment.from_file can do with a file: raise, or, when the bytes
\* carry an audio signature, give a segment of some duration
DecodeOutcomesFor(bytes) ==
    IF SignatureOf(Slice(bytes, 0, 12)) = None THEN {None} ELSE DecodeOutcomes

CropNames == {<<"a", ".", "m", "p", "3">>, <<"a", ".", "w", "a", "v">>}
CropBytes == {Encoded(s_wav, 2000), <<60, 104, 116, 109, 108, 62>>}

InitCrop ==
    /\ prog = "crop"
    /\ pc = "call"
    /\ path \in CropNames
    /\ files \in {path :> b : b \in CropBytes}
    /\ args \in [call_start : TsOpt, customer_pickup : TsOpt, call_end : TsOpt]
    /\ snap = files
    /\ out = None
    /\ calls = <<>>
    /\ Idle

Crop ==
    /\ prog = "crop"
    /\ pc = "call"
    /\ \E decode \in DecodeOutcomesFor(files[path]), export \in ExportOutcomes :
         LET r == crop_audio_by_timestamps(files, path, args.call_start,
                                           args.customer_pickup, args.call_end,
                                           decode, export)
         IN /\ out' = Some(r.ret)
            /\ files' = r.fs
            /\ calls' = r.calls
    /\ pc' = "returned"
    /\ UNCHANGED <<prog, path, args, snap, loopVars, transVars>>

NextCrop == Crop

SpecCrop == InitCrop /\ [][NextCrop]_vars

IsReal(t) == t # None /\ ~t[1].nat

\* the window of the call is malformed: a timestamp is absent, or the pickup
\* precedes the call start, or the call does not end after the pickup
MalformedWindow ==
    \/ args.call_start = None \/ args.customer_pickup = None \/ args.call_end = None
    \/ /\ IsReal(args.call_start) /\ IsReal(args.customer_pickup)
       /\ args.customer_pickup[1].t < args.call_start[1].t
    \/ /\ IsReal(args.call_end) /\ IsReal(args.customer_pickup)
       /\ args.call_end[1].t <= args.customer_pickup[1].t

WellFormedWindow ==
    /\ IsReal(args.call_start) /\ IsReal(args.customer_pickup) /\ IsReal(args.call_end)
    /\ args.customer_pickup[1].t >= args.call_start[1].t
    /\ args.call_end[1].t > args.customer_pickup[1].t

\* C2: a crop call with an absent timestamp, or pickup < callStart, or
\* callEnd <= pickup returns False, makes neither the decode nor the export
\* call, and leaves every file as it was.
Thm_C2_MalformedWindowSkipped ==
    (prog = "crop" /\ pc = "returned" /\ MalformedWindow) =>
        /\ out = Some(FALSE)
        /\ calls = <<>>
        /\ files = snap

\* a call with callEnd = pickup, all three timestamps present, was skipped
Wit_C2_EndAtPickup ==
    /\ prog = "crop" /\ pc = "returned"
    /\ IsReal(args.call_start) /\ IsReal(args.customer_pickup) /\ IsReal(args.call_end)
    /\ args.call_start[1].t <= args.customer_pickup[1].t
    /\ args.call_end[1].t = args.customer_pickup[1].t
    /\ out = Some(FALSE) /\ files = snap

\* C3: when the crop of a well-formed window fails, in the decode or in the
\* export call, the call returns False and the artifact holds the bytes it
\* held before the call.
Cex_C3_FailedCropLeavesArtifact ==
    (/\ prog = "crop" /\ pc = "returned" /\ WellFormedWindow
     /\ \E k \in 1..Len(calls) : ~calls[k].ok) =>
        /\ out = Some(FALSE)
        /\ files = snap

----------------------------------------------------------------------------
(* fetch_recordings.py: recording_id_from_link *)

\* s with every "+" replaced by a space (parse_qsl: nv.replace('+', ' '))
plus_to_space(s) == [k \in 1..Len(s) |-> IF s[k] = "+" THEN " " ELSE s[k]]

\* urlparse(link) raises ValueError("Invalid IPv6 URL"): the link starts with
\* "//" and its netloc, which ends at the first of "/", "?", "#", holds "["
\* without "]"
urlparse_raises(link) ==
    /\ Slice(link, 0, 2) = <<"/", "/">>
    /\ LET rest == Slice(link, 2, Len(link))
           d == FindFirst(rest, {"/", "?", "#"})
           netloc == IF d = 0 THEN rest ELSE SubSeq(rest, 1, d - 1)
       IN ("[" \in {netloc[k] : k \in 1..Len(netloc)})
          # ("]" \in {netloc[k] : k \in 1..Len(netloc)})

\* urlparse_query without the cut at "#": whatever follows the first "?"
urlparse_query_keepfrag(link) ==
    LET q == FindFirst(link, {"?"})
    IN IF q = 0 THEN <<>> ELSE SubSeq(link, q + 1, Len(link))

\* urlparse(link).query: the fragment is cut at the first "#", and the query
\* is what follows the first "?" of the rest
urlparse_query(link) ==
    LET h == FindFirst(link, {"#"})
        nofrag == IF h = 0 THEN link ELSE SubSeq(link, 1, h - 1)
        q == FindFirst(nofrag, {"?"})
    IN IF q = 0 THEN <<>> ELSE SubSeq(nofrag, q + 1, Len(nofrag))

\* parse_qs(query).get("id"): the values of the fields named id, in order; a
\* field without "=" or with an empty value is dropped (keep_blank_values is
\* False); <<>> stands for None
RECURSIVE id_values(_)
id_values(fields) ==
    IF fields = <<>> THEN <<>>
    ELSE LET nv == Head(fields)
             e == FindFirst(nv, {"="})
             name == plus_to_space(SubSeq(nv, 1, e - 1))
             value == plus_to_space(SubSeq(nv, e + 1, Len(nv)))
         IN (IF e # 0 /\ value # <<>> /\ name = <<"i", "d">> THEN <<value>> ELSE <<>>)
            \o id_values(Tail(fields))

parse_qs_id(query) == id_values(str_split(query, "&"))

\* recording_id_from_link(recording_link): Optional[str]
recording_id_from_link(recording_link) ==
    IF recording_link = <<>> THEN None
    ELSE LET link == str_strip(recording_link)
         IN IF link = <<>> THEN None
            ELSE IF urlparse_raises(link) THEN None
            ELSE LET ids == parse_qs_id(urlparse_query(link))
                 IN IF ids # <<>> /\ ids[1] # <<>> THEN Some(str_strip(ids[1]))
                    ELSE None

----------------------------------------------------------------------------
(* fetch_recordings.py: get_recording_public_url *)

\* a test for None in place of the truth test
Truthy_notnone(opt) == opt # None

\* bool(s) of an Optional[str]: neither None nor ""
Truthy(opt) == opt # None /\ opt[1] # <<>>

\* A JSON value, flattened: t is its type ("missing": the key is absent),
\* s its text when it is a string, n its value when it is a number
JMissing == [t |-> "missing", s |-> <<>>, n |-> 0]
JNull == [t |-> "null", s |-> <<>>, n |-> 0]
JNum(k) == [t |-> "num", s |-> <<>>, n |-> k]
JStr(x) == [t |-> "str", s |-> x, n |-> 0]
JObj == [t |-> "dict", s |-> <<>>, n |-> 0]

\* bool(v) of a JSON value (dict.get gives None for a missing key)
JTruthy(v) ==
    CASE v.t = "str" -> v.s # <<>>
      [] v.t = "num" -> v.n # 0
      [] OTHER -> FALSE

\* raise_for_status(): HTTPError for 4xx and 5xx
raises_for_status(status) == status >= 400 /\ status < 600

\* the payload tests of lines 86-89 with the blank-string test dropped
public_link_of_noblank(data, url) ==
    IF data.t = "str" THEN Some(str_strip(data.s))
    ELSE IF data.t = "dict" /\ JTruthy(url)
         THEN (IF url.t = "str" THEN Some(str_strip(url.s)) ELSE None)
    ELSE None

\* lines 85-91: the URL in the envelope's "data" payload; url is
\* data.get("url") when the payload is an object. A truthy url that is no
\* string has no strip(): AttributeError, caught at line 95.
public_link_of(data, url) ==
    IF data.t = "str" /\ str_strip(data.s) # <<>> THEN Some(str_strip(data.s))
    ELSE IF data.t = "dict" /\ JTruthy(url)
         THEN (IF url.t = "str" THEN Some(str_strip(url.s)) ELSE None)
    ELSE None

\* get_recording_public_url(recording_id, company_id), given the response r
\* to its one GET: r.err is a transport exception (timeout, connection),
\* r.json the kind of body ("invalid": r.json() raises, "list": valid JSON
\* that is no object, so data.get raises AttributeError)
get_recording_public_url(r) ==
    IF r.err THEN None
    ELSE IF raises_for_status(r.status) THEN None
    ELSE IF r.json # "dict" THEN None
    ELSE public_link_of(r.data, r.url)

----------------------------------------------------------------------------
(* fetch_recordings.py: download_audio, and the destination name in main *)

RECURSIVE Concat(_)
Concat(chunks) == IF chunks = <<>> THEN <<>> ELSE Head(chunks) \o Concat(Tail(chunks))

\* what the streaming loop leaves in the file: every chunk, or, when the
\* stream breaks (r.broken), the chunks before the last
Written(r) ==
    IF r.broken THEN Concat(SubSeq(r.chunks, 1, Len(r.chunks) - 1)) ELSE Concat(r.chunks)

\* download_audio(public_url, dest_path), given the response r to its GET.
\* Gives [ok: the returned bool, fs: the file system after].
download_audio(fs, dest_path, r) ==
    IF r.err \/ raises_for_status(r.status) THEN [ok |-> FALSE, fs |-> fs]
    ELSE [ok |-> ~r.broken, fs |-> (dest_path :> Written(r)) @@ fs]

s_dot == <<".">>
AudioExts == {<<".", "m", "p", "3">>, <<".", "w", "a", "v">>, <<".", "m", "4", "a">>, <<".", "o", "g", "g">>, <<".", "w", "e", "b", "m">>}

\* lines 227-231: the extension of the destination, from the URL before "?"
ext_of_url(url) ==
    LET base == Head(str_split(url, "?"))
        d == FindLast(base, {"."})
        ext == IF d = 0 THEN <<".", "m", "p", "3">>
               ELSE s_dot \o str_lower(SubSeq(base, d + 1, Len(base)))
    IN IF ext \in AudioExts THEN ext ELSE <<".", "m", "p", "3">>

\* line 233: OUTPUT_DIR / f"{recording_id}{ext}"
dest_path_of(rid, url) == rid \o ext_of_url(url)

\* _parse_ts(value) of a spreadsheet cell: NaN (k = "nan") and a value
\* pd.to_datetime rejects (k = "bad") give None, NaT stays NaT
parse_ts(cell) ==
    CASE cell.k = "ts" -> Some(Ts(cell.t))
      [] cell.k = "nat" -> Some(NaT)
      [] OTHER -> None

----------------------------------------------------------------------------
(* fetch_recordings.py: main, the loop over the rows of the spreadsheet.
   The spreadsheet is the input: each iteration draws the next row. The
   columns total_talk_time_duration and company_id are absent. *)

MaxRows == 2

Cell(k, t) == [k |-> k, t |-> t]

FetchDfLinks ==
    { <<" ">>, <<"u">>, <<"u", "?", "x", "=", "a">>, <<"u", "?", "i", "d", "=">>, <<"u", "?", "i", "d", "=", "+", "&", "x", "=", "a">>, <<"/", "/", "[", "?", "i", "d", "=", "a">>,
      <<"u", "#", "?", "i", "d", "=", "a">>,
      <<" ", "u", "?", "i", "d", "=", "a", " ">>, <<"u", "?", "x", "=", "d", "&", "i", "d", "=", "a", "&", "i", "d", "=", "d">> }

ValidLinks == { <<" ", "u", "?", "i", "d", "=", "a", " ">>, <<"u", "?", "x", "=", "d", "&", "i", "d", "=", "a", "&", "i", "d", "=", "d">> }

FetchTimes ==
    { <<Cell("nan", 0), Cell("ts", 1), Cell("ts", 2)>>,
      <<Cell("ts", 1), Cell("ts", 0), Cell("ts", 2)>>,
      <<Cell("ts", 0), Cell("ts", 1), Cell("ts", 2)>>,
      <<Cell("ts", 0), Cell("nat", 0), Cell("bad", 0)>> }

FetchRow(link, times) ==
    [recording_link |-> link, call_start_time |-> times[1],
     customer_call_pickup_time |-> times[2], call_end_time |-> times[3]]

FetchDf ==
    {FetchRow(l, <<Cell("nan", 0), Cell("nan", 0), Cell("nan", 0)>>) :
        l \in FetchDfLinks \ ValidLinks}
    \cup {FetchRow(l, t) : l \in ValidLinks, t \in FetchTimes}

\* line 187: the rows whose recording_link is not blank
FetchRows == {r \in FetchDf : str_strip(r.recording_link) # <<>>}

u_wav == <<" ", "h", "/", "a", ".", "W", "A", "V", "?", "k", "=", "v", ".", "o", "g", "g", " ">>
u_plain == <<"h", ".", "c", "/", "a">>

OkJson(data, url) ==
    [err |-> FALSE, status |-> 200, json |-> "dict", data |-> data, url |-> url]

LocatorResponses ==
    {[err |-> TRUE, status |-> 0, json |-> "invalid", data |-> JMissing, url |-> JMissing]}
    \cup {[err |-> FALSE, status |-> s, json |-> "dict", data |-> JStr(u_plain),
           url |-> JMissing] : s \in {404, 503}}
    \cup {[err |-> FALSE, status |-> 200, json |-> j, data |-> JMissing, url |-> JMissing] :
            j \in {"invalid", "list"}}
    \cup {OkJson(d, JMissing) :
            d \in {JMissing, JNull, JNum(7), JStr(<<>>), JStr(<<" ">>), JStr(u_wav),
                   JStr(u_plain)}}
    \cup {OkJson(JObj, u) :
            u \in {JMissing, JNull, JNum(5), JNum(0), JStr(<<>>), JStr(<<" ">>), JStr(u_wav)}}

b_html == <<60, 104, 116, 109, 108, 62>>
b_wav2s == Encoded(s_wav, 2000)

ContentTypes ==
    { None, Some(s_text_html), Some(<<"T", "e", "x", "t", "/", "H", "T", "M", "L", ";", " ", "c", "h", "a", "r", "s", "e", "t", "=", "U", "T", "F", "-", "8">>),
      Some(s_application_json), Some(<<"a", "u", "d", "i", "o", "/", "m", "p", "e", "g">>) }

DownloadResponses ==
    {[err |-> TRUE, status |-> 0, ctype |-> None, chunks |-> <<>>, broken |-> FALSE],
     [err |-> FALSE, status |-> 404, ctype |-> Some(s_text_html), chunks |-> <<b_html>>,
      broken |-> FALSE]}
    \cup {[err |-> FALSE, status |-> 200, ctype |-> c, chunks |-> b[1], broken |-> b[2]] :
            c \in ContentTypes,
            b \in {<<<<b_html>>, FALSE>>,
                   <<<<Slice(b_wav2s, 0, 12), Slice(b_wav2s, 12, 13)>>, FALSE>>,
                   <<<<Slice(b_wav2s, 0, 12), Slice(b_wav2s, 12, 13)>>, TRUE>>}}

\* an external call made for row k: its name, whether it succeeded, and the
\* error message it gave (transcribe)
Event(k, fn, ok, msg) == [idx |-> k, fn |-> fn, ok |-> ok, msg |-> msg]

InitFetch ==
    /\ prog = "fetch"
    /\ pc = "loop"
    /\ files = <<>>
    /\ path = <<>>
    /\ out = None
    /\ args = None
    /\ snap = <<>>
    /\ calls = <<>>
    /\ idx = 0
    /\ nrows \in 0..MaxRows
    /\ row = None
    /\ recording_id = None
    /\ public_url = None
    /\ resp = None
    /\ access_token = None /\ results = <<>> /\ output = None /\ rows = <<>>

\* lines 209-214: the next row; without a recording id the row is skipped
FetchNextRow ==
    /\ prog = "fetch" /\ pc = "loop" /\ idx < nrows
    /\ \E r \in FetchRows :
         LET recording_link == str_strip(r.recording_link)
             rid == recording_id_from_link(recording_link)
         IN /\ row' = Some(r)
            /\ recording_id' = rid
            /\ pc' = IF Truthy(rid) THEN "locate" ELSE "loop"
    /\ idx' = idx + 1
    /\ public_url' = None /\ resp' = None /\ path' = <<>> /\ out' = None
    /\ snap' = files
    /\ UNCHANGED <<prog, files, args, calls, nrows, transVars>>

\* lines 222-233: one locator request; without a URL the row is skipped
FetchLocate ==
    /\ prog = "fetch" /\ pc = "locate"
    /\ \E r \in LocatorResponses :
         LET url == get_recording_public_url(r)
         IN /\ resp' = Some(r)
            /\ public_url' = url
            /\ calls' = Append(calls, Event(idx, "locator", Truthy(url), <<>>))
            /\ pc' = IF Truthy(url) THEN "download" ELSE "loop"
            /\ path' = IF Truthy(url) THEN dest_path_of(recording_id[1], url[1]) ELSE <<>>
    /\ UNCHANGED <<prog, files, out, args, snap, idx, nrows, row, recording_id, transVars>>

\* line 234: download_audio(public_url, dest_path)
FetchDownload ==
    /\ prog = "fetch" /\ pc = "download"
    /\ \E r \in DownloadResponses :
         LET d == download_audio(files, path, r)
         IN /\ resp' = Some(r)
            /\ snap' = files
            /\ files' = d.fs
            /\ out' = Some(d.ok)
            /\ calls' = Append(calls, Event(idx, "download", d.ok, <<>>))
    /\ pc' = "downloaded"
    /\ UNCHANGED <<prog, path, args, idx, nrows, row, recording_id, public_url, transVars>>

\* lines 235-239: the download succeeded; parse the timestamps and crop
FetchCrop ==
    /\ prog = "fetch" /\ pc = "downloaded" /\ out = Some(TRUE)
    /\ \E decode \in DecodeOutcomesFor(files[path]), export \in ExportOutcomes :
         LET c == crop_audio_by_timestamps(files, path,
                      parse_ts(row[1].call_start_time),
                      parse_ts(row[1].customer_call_pickup_time),
                      parse_ts(row[1].call_end_time), decode, export)
         IN /\ files' = c.fs
            /\ calls' = Append(calls, Event(idx, "crop", c.ret, <<>>))
    /\ snap' = files
    /\ pc' = "loop"
    /\ UNCHANGED <<prog, path, out, args, idx, nrows, row, recording_id, public_url, resp,
                   transVars>>

\* lines 240-241: the download failed; the row is given up
FetchGiveUp ==
    /\ prog = "fetch" /\ pc = "downloaded" /\ out = Some(FALSE)
    /\ pc' = "loop"
    /\ UNCHANGED <<prog, files, path, out, args, snap, calls, idx, nrows, row, recording_id,
                   public_url, resp, transVars>>

\* line 243: the loop is over
FetchDone ==
    /\ prog = "fetch" /\ pc = "loop" /\ idx = nrows
    /\ pc' = "done"
    /\ UNCHANGED <<prog, files, path, out, args, snap, calls, idx, nrows, row, recording_id,
                   public_url, resp, transVars>>

NextFetch ==
    \/ FetchNextRow
    \/ FetchLocate
    \/ FetchDownload
    \/ FetchCrop
    \/ FetchGiveUp
    \/ FetchDone

SpecFetch == InitFetch /\ [][NextFetch]_vars

----------------------------------------------------------------------------
(* Transcription.py: get_access_token, download_recording, transcribe_file *)

\* sub in s (str.__contains__)
Contains(s, sub) ==
    \E k \in 0..(Len(s) - Len(sub)) : Slice(s, k, k + Len(sub)) = sub

\* sep.join(parts)
RECURSIVE str_join(_, _)
str_join(sep, parts) ==
    IF parts = <<>> THEN <<>>
    ELSE IF Len(parts) = 1 THEN parts[1]
    ELSE parts[1] \o sep \o str_join(sep, Tail(parts))

\* get_access_token without the test of the credentials
get_access_token_nocheck(cfg, r) ==
    IF r.err \/ raises_for_status(r.status) THEN None
    ELSE IF r.json # "dict" THEN None
    ELSE IF JTruthy(r.token) THEN Some(r.token.s)
    ELSE None

\* get_access_token(), given the configured credentials and the response r to
\* its POST (none is sent when a credential is empty): Optional[str]
get_access_token(cfg, r) ==
    IF cfg.client_id = <<>> \/ cfg.client_secret = <<>> THEN None
    ELSE IF r.err \/ raises_for_status(r.status) THEN None
    ELSE IF r.json # "dict" THEN None
    ELSE IF JTruthy(r.token) THEN Some(r.token.s)
    ELSE None

\* line 70: the declared content type is an HTML or a JSON page
is_auth_page(content_type) ==
    Contains(content_type, s_text_html) \/ Contains(content_type, s_application_json)

\* download_recording(url, dest_path, access_token=...), given the response r
\* to its GET. Gives [ok, err: the returned pair, fs: the file system after].
download_recording(fs, dest_path, r) ==
    IF r.err \/ raises_for_status(r.status) THEN [ok |-> FALSE, err |-> r.msg, fs |-> fs]
    ELSE LET content_type == str_lower(IF r.ctype = None THEN <<>> ELSE r.ctype[1])
         IN IF is_auth_page(content_type)
            THEN [ok |-> FALSE,
                  err |-> <<"U", "n", "e", "x", "p", "e", "c", "t", "e", "d", " ", "c", "o", "n", "t", "e", "n", "t", "-", "t", "y", "p", "e", ":", " ">> \o content_type
                          \o <<" ", "(", "a", "u", "t", "h", " ", "r", "e", "q", "u", "i", "r", "e", "d", "?", ")">>,
                  fs |-> fs]
            ELSE [ok |-> ~r.broken,
                  err |-> IF r.broken THEN r.msg ELSE <<>>,
                  fs |-> (dest_path :> Written(r)) @@ fs]

\* transcribe_file(model, audio_path), given what model.transcribe does: o.raise
\* (with message o.msg), or segments o.segments and info o.language, o.duration
\* (None: info has no duration), o.duration_seconds.
\* Gives (transcript, language, duration, error) with error None as <<>>.
transcribe_file(o) ==
    IF o.raise
    THEN [transcript |-> <<>>, language |-> <<>>, duration |-> 0, error |-> Some(o.msg)]
    ELSE [transcript |-> str_strip(str_join(<<" ">>, o.segments)),
          language |-> o.language,
          duration |-> IF o.duration # None /\ o.duration[1] # 0 THEN o.duration[1]
                       ELSE o.duration_seconds,
          error |-> None]

\* no cleanup
unlink_never(fs, p) == fs

\* tmp_path.unlink() when tmp_path.exists()
unlink(fs, p) == [q \in DOMAIN fs \ {p} |-> fs[q]]

----------------------------------------------------------------------------
(* Transcription.py: main, from line 115 on (the CSV holds nrows >= 1 rows
   with a recording_link) *)

Digit(k) == CASE k = 0 -> "0" [] k = 1 -> "1" [] k = 2 -> "2" [] k = 3 -> "3"
              [] k = 4 -> "4" [] k = 5 -> "5" [] k = 6 -> "6" [] k = 7 -> "7"
              [] k = 8 -> "8" [] OTHER -> "9"

\* the name NamedTemporaryFile(suffix=".mp3") picks in iteration k
tmp_name(k) == <<"t", "m", "p">> \o <<Digit(k)>> \o <<".", "m", "p", "3">>

Credentials ==
    {[client_id |-> a, client_secret |-> b] : a \in {<<>>, <<"i", "d">>}, b \in {<<>>, <<"s">>}}

TokenResponses ==
    {[err |-> TRUE, status |-> 0, json |-> "invalid", token |-> JMissing],
     [err |-> FALSE, status |-> 401, json |-> "dict", token |-> JMissing],
     [err |-> FALSE, status |-> 200, json |-> "invalid", token |-> JMissing],
     [err |-> FALSE, status |-> 200, json |-> "list", token |-> JMissing]}
    \cup {[err |-> FALSE, status |-> 200, json |-> "dict", token |-> t] :
            t \in {JMissing, JNull, JStr(<<>>), JStr(<<"t", "o", "k">>)}}

TransRows ==
    {[event_id |-> "e1", loan_id |-> "l1", recording_link |-> <<" ", "x", " ">>],
     [event_id |-> "e2", loan_id |-> "l2", recording_link |-> <<"y">>]}

TransDownloadResponses ==
    {[err |-> TRUE, status |-> 0, ctype |-> None, chunks |-> <<>>, broken |-> FALSE,
      msg |-> m] : m \in {<<>>, <<"t", "i", "m", "e", "d", " ", "o", "u", "t">>}}
    \cup {[err |-> FALSE, status |-> 404, ctype |-> Some(s_text_html),
           chunks |-> <<b_html>>, broken |-> FALSE, msg |-> <<"4", "0", "4">>]}
    \cup {[err |-> FALSE, status |-> 200, ctype |-> c, chunks |-> b[1], broken |-> b[2],
           msg |-> IF b[2] THEN <<"r", "e", "s", "e", "t">> ELSE <<>>] :
            c \in ContentTypes,
            b \in {<<<<b_html>>, FALSE>>,
                   <<<<Slice(b_wav2s, 0, 12), Slice(b_wav2s, 12, 13)>>, FALSE>>,
                   <<<<Slice(b_wav2s, 0, 12), Slice(b_wav2s, 12, 13)>>, TRUE>>}}

TranscribeOutcomes ==
    {[raise |-> TRUE, msg |-> m, segments |-> <<>>, language |-> <<>>,
      duration |-> None, duration_seconds |-> 0] : m \in {<<>>, <<"b", "a", "d", " ", "a", "u", "d", "i", "o">>}}
    \cup {[raise |-> FALSE, msg |-> <<>>, segments |-> s, language |-> <<"e", "n">>,
           duration |-> d, duration_seconds |-> 0] :
            s \in {<<>>, <<<<" ", "h", "i">>, <<" ", "y", "o", " ">>>>}, d \in {None, Some(2)}}

\* the error of a failed download without the prefix
download_failed_error_bare(dl_err) == dl_err

\* line 148: f"Download failed: {dl_err}"
download_failed_error(dl_err) == <<"D", "o", "w", "n", "l", "o", "a", "d", " ", "f", "a", "i", "l", "e", "d", ":", " ">> \o dl_err

\* lines 141-149 and 152-160: the row appended to results
ResultRow(r, url, transcript, language, duration, error) ==
    [event_id |-> r.event_id, loan_id |-> r.loan_id, recording_link |-> url,
     transcript |-> transcript, language |-> language, duration_seconds |-> duration,
     error |-> error]

InitTrans ==
    /\ prog = "transcribe"
    /\ pc = "token"
    /\ files = <<>>
    /\ path = <<>>
    /\ out = None
    /\ args \in Credentials
    /\ snap = <<>>
    /\ calls = <<>>
    /\ idx = 0
    /\ nrows \in 1..MaxRows
    /\ row = None /\ recording_id = None /\ public_url = None /\ resp = None
    /\ access_token = None /\ results = <<>> /\ output = None /\ rows = <<>>

\* lines 115-120: without a token main returns
TransGetToken ==
    /\ prog = "transcribe" /\ pc = "token"
    /\ \E r \in TokenResponses :
         LET token == get_access_token(args, r)
         IN /\ access_token' = token
            /\ resp' = IF args.client_id = <<>> \/ args.client_secret = <<>> THEN None
                        ELSE Some(r)
            /\ pc' = IF Truthy(token) THEN "model" ELSE "done"
    /\ UNCHANGED <<prog, files, path, out, args, snap, calls, idx, nrows, row,
                   recording_id, public_url, results, output, rows>>

\* lines 122-127: WhisperModel on cuda, else on cpu; a failure of the cpu
\* load is not caught
TransLoadModel ==
    /\ prog = "transcribe" /\ pc = "model"
    /\ \E loaded \in BOOLEAN : pc' = IF loaded THEN "loop" ELSE "aborted"
    /\ UNCHANGED <<prog, files, path, out, args, snap, calls, loopVars, transVars>>

\* lines 130-137: the next row, and its temporary file
TransNextRow ==
    /\ prog = "transcribe" /\ pc = "loop" /\ idx < nrows
    /\ \E r \in TransRows :
         /\ row' = Some(r)
         /\ rows' = Append(rows, r)
    /\ idx' = idx + 1
    /\ path' = tmp_name(idx + 1)
    /\ files' = (tmp_name(idx + 1) :> <<>>) @@ files
    /\ out' = None
    /\ pc' = "download"
    /\ UNCHANGED <<prog, args, snap, calls, nrows, recording_id, public_url, resp,
                   access_token, results, output>>

\* line 139: download_recording(url, tmp_path, access_token=access_token)
TransDownload ==
    /\ prog = "transcribe" /\ pc = "download"
    /\ \E r \in TransDownloadResponses :
         LET d == download_recording(files, path, r)
         IN /\ resp' = Some(r)
            /\ snap' = files
            /\ files' = d.fs
            /\ out' = Some([ok |-> d.ok, err |-> d.err])
            /\ calls' = Append(calls, Event(idx, "download", d.ok, <<>>))
    /\ pc' = "downloaded"
    /\ UNCHANGED <<prog, path, args, idx, nrows, row, recording_id, public_url, transVars>>

\* lines 140-150, 162-164: the download failed; its row, then the finally clause
TransDownloadFailed ==
    /\ prog = "transcribe" /\ pc = "downloaded" /\ ~out[1].ok
    /\ results' = Append(results,
                         ResultRow(row[1], str_strip(row[1].recording_link), <<>>, <<>>, 0,
                                   download_failed_error(out[1].err)))
    /\ files' = unlink(files, path)
    /\ pc' = "loop"
    /\ UNCHANGED <<prog, path, out, args, snap, calls, loopVars, access_token, output, rows>>

\* lines 151-164: transcribe_file, its row, then the finally clause
TransTranscribe ==
    /\ prog = "transcribe" /\ pc = "downloaded" /\ out[1].ok
    /\ \E o \in TranscribeOutcomes :
         LET t == transcribe_file(o)
         IN /\ results' = Append(results,
                                 ResultRow(row[1], str_strip(row[1].recording_link),
                                           t.transcript, t.language, t.duration,
                                           IF t.error = None THEN <<>> ELSE t.error[1]))
            /\ calls' = Append(calls, Event(idx, "transcribe", ~o.raise, o.msg))
    /\ files' = unlink(files, path)
    /\ pc' = "loop"
    /\ UNCHANGED <<prog, path, out, args, snap, loopVars, access_token, output, rows>>

\* an exception that is no Exception (KeyboardInterrupt, SystemExit) leaves
\* download_recording or transcribe_file: the finally clause runs, main ends
TransInterrupted ==
    /\ prog = "transcribe" /\ pc \in {"download", "downloaded"}
    /\ pc = "downloaded" => out[1].ok
    /\ files' = unlink(files, path)
    /\ pc' = "aborted"
    /\ UNCHANGED <<prog, path, out, args, snap, calls, loopVars, transVars>>

\* lines 166-168: the results are written
TransSave ==
    /\ prog = "transcribe" /\ pc = "loop" /\ idx = nrows
    /\ output' = Some(results)
    /\ pc' = "done"
    /\ UNCHANGED <<prog, files, path, out, args, snap, calls, loopVars, access_token,
                   results, rows>>

NextTrans ==
    \/ TransGetToken
    \/ TransLoadModel
    \/ TransNextRow
    \/ TransDownload
    \/ TransDownloadFailed
    \/ TransTranscribe
    \/ TransInterrupted
    \/ TransSave

SpecTrans == InitTrans /\ [][NextTrans]_vars

----------------------------------------------------------------------------
(* Both entry points *)

Init == InitFetch \/ InitTrans

Next == NextFetch \/ NextTrans

Spec == Init /\ [][Next]_vars

----------------------------------------------------------------------------
(* Claims on the two runs, under Spec *)

\* the download call of the iteration has just returned
JustDownloaded == pc = "downloaded" /\ resp # None

\* what the download call reported: download_audio's bool, download_recording's ok
DownloadReportedOk == IF prog = "fetch" THEN out[1] ELSE out[1].ok

HtmlOrJsonTypes ==
    { <<"t", "e", "x", "t", "/", "h", "t", "m", "l">>, <<"T", "e", "x", "t", "/", "H", "T", "M", "L", ";", " ", "c", "h", "a", "r", "s", "e", "t", "=", "U", "T", "F", "-", "8">>, <<"a", "p", "p", "l", "i", "c", "a", "t", "i", "o", "n", "/", "j", "s", "o", "n">> }

\* C1: in both download operations, a response with status 200 and a declared
\* Content-Type containing text/html or application/json is reported as a
\* failure, and no byte of its body is written to the destination.
Cex_C1_AuthPageRejected ==
    (/\ JustDownloaded
     /\ ~resp[1].err /\ resp[1].status = 200
     /\ resp[1].ctype # None /\ resp[1].ctype[1] \in HtmlOrJsonTypes) =>
        /\ ~DownloadReportedOk
        /\ files = snap

\* the links of FetchDfLinks without an id parameter: no query, no id field,
\* an empty id, the id in the fragment, a link urlparse rejects
NoIdLinks == { <<"u">>, <<"u", "?", "x", "=", "a">>, <<"u", "?", "i", "d", "=">>, <<"u", "#", "?", "i", "d", "=", "a">>, <<"/", "/", "[", "?", "i", "d", "=", "a">> }

\* the link whose id parameter is a single blank
BlankIdLinks == { <<"u", "?", "i", "d", "=", "+", "&", "x", "=", "a">> }

EventsOf(k) == {e \in 1..Len(calls) : calls[e].idx = k}

\* the iteration of the current row made no request, wrote nothing, and the
\* loop goes on: it ends only after the last row, and before that the next
\* row can be taken
RowSkipped ==
    /\ EventsOf(idx) = {}
    /\ files = snap
    /\ pc \in {"loop", "done"}
    /\ pc = "done" => idx = nrows
    /\ (pc = "loop" /\ idx < nrows) => ENABLED FetchNextRow

\* C4: for a row whose recording_link has no non-empty id parameter, or cannot
\* be parsed, recording_id_from_link gives None, the loop makes no locator
\* request and no download for the row and writes no file, and the rows after
\* it are still taken. (A row whose id is blank is skipped the same way.)
Thm_C4_NoIdRowSkipped ==
    (prog = "fetch" /\ row # None) =>
        /\ row[1].recording_link \in NoIdLinks => (recording_id = None /\ RowSkipped)
        /\ row[1].recording_link \in BlankIdLinks => RowSkipped

\* the first of two rows has its id in the fragment: it was skipped, nothing
\* was requested or written, and the second row can be taken
Wit_C4_FirstRowSkipped ==
    /\ prog = "fetch" /\ idx = 1 /\ nrows = 2 /\ row # None
    /\ row[1].recording_link = <<"u", "#", "?", "i", "d", "=", "a">>
    /\ recording_id = None /\ pc = "loop" /\ calls = <<>> /\ files = <<>>
    /\ ENABLED FetchNextRow

\* the locator call of the current row has returned and nothing came after it
JustLocated ==
    /\ prog = "fetch" /\ resp # None
    /\ calls # <<>> /\ calls[Len(calls)].fn = "locator" /\ calls[Len(calls)].idx = idx

\* the request went through and the body is a JSON object
EnvelopeReceived == ~resp[1].err /\ resp[1].status = 200 /\ resp[1].json = "dict"

\* the payload is a string that is not blank
PayloadIsUrlString ==
    resp[1].data.t = "str" /\ resp[1].data.s \notin {<<>>, <<" ">>}

\* the payload is an object with a url field
PayloadHasUrlField == resp[1].data.t = "dict" /\ resp[1].url.t # "missing"

\* C6: get_recording_public_url gives a URL only for an envelope whose data
\* payload is a non-blank string or an object with a url field; for every
\* other payload and for every transport failure it gives None, after exactly
\* one request; without a URL the caller skips the row and goes on.
Thm_C6_LocatorOneRequest ==
    JustLocated =>
        /\ (public_url # None /\ public_url[1] # <<>>) =>
              (EnvelopeReceived /\ (PayloadIsUrlString \/ PayloadHasUrlField))
        /\ ~(EnvelopeReceived /\ (PayloadIsUrlString \/ PayloadHasUrlField)) =>
              public_url = None
        /\ Cardinality({e \in EventsOf(idx) : calls[e].fn = "locator"}) = 1
        /\ (public_url = None \/ public_url[1] = <<>>) =>
              /\ pc \in {"loop", "done"}
              /\ Cardinality(EventsOf(idx)) = 1
              /\ files = snap
              /\ pc = "done" => idx = nrows
              /\ (pc = "loop" /\ idx < nrows) => ENABLED FetchNextRow

\* a payload that is a number: no link, the row is skipped, the next row waits
Wit_C6_NumberPayloadSkipped ==
    /\ JustLocated /\ EnvelopeReceived
    /\ resp[1].data.t = "num"
    /\ public_url = None /\ pc = "loop" /\ idx < nrows

\* the names of the calls made for row k, in order
RECURSIVE StagesFrom(_, _)
StagesFrom(k, e) ==
    IF e > Len(calls) THEN <<>>
    ELSE (IF calls[e].idx = k THEN <<calls[e]>> ELSE <<>>) \o StagesFrom(k, e + 1)

Stages(k) == StagesFrom(k, 1)

\* C9: in the fetch run the rows are handled one at a time in input order; for
\* each row the locator is queried only with a recording id, the download is
\* started only with a URL from the locator, the crop is attempted only after
\* a successful download; each stage runs at most once per row, and a row's
\* calls end before the next row's begin.
Thm_C9_StagesGatedInOrder ==
    prog = "fetch" =>
        /\ \A e \in 1..Len(calls) : calls[e].idx \in 1..idx
        /\ \A e \in 1..(Len(calls) - 1) : calls[e].idx <= calls[e + 1].idx
        /\ \A k \in 1..idx :
             LET st == Stages(k)
             IN /\ Len(st) <= 3
                /\ Len(st) >= 1 => st[1].fn = "locator"
                /\ Len(st) >= 2 => (st[2].fn = "download" /\ st[1].ok)
                /\ Len(st) >= 3 => (st[3].fn = "crop" /\ st[2].ok)
        /\ EventsOf(idx) # {} => (recording_id # None /\ recording_id[1] # <<>>)
        /\ pc = "download" => (public_url # None /\ public_url[1] # <<>>)
        /\ pc = "loop" => \A k \in 1..idx :
             LET st == Stages(k)
             IN /\ (Len(st) = 1 => ~st[1].ok)
                /\ (Len(st) = 2 => ~st[2].ok)

\* two rows went through all three stages, one after the other
Wit_C9_TwoRowsAllStages ==
    /\ prog = "fetch" /\ pc = "loop" /\ idx = 2
    /\ Len(calls) = 6
    /\ calls[3].idx = 1 /\ calls[3].fn = "crop"
    /\ calls[6].idx = 2 /\ calls[6].fn = "crop"

\* the temporary files that exist
TmpFiles == DOMAIN files

\* C7: in the transcription run the temporary file of a row exists only
\* during that row's iteration (after a failed download, a failed or a
\* successful transcription, or an exception leaving the body, it is gone),
\* at most one exists at any moment, and none after the loop.
Thm_C7_TempFileCleanedUp ==
    prog = "transcribe" =>
        /\ Cardinality(TmpFiles) <= 1
        /\ TmpFiles \subseteq {path}
        /\ TmpFiles # {} => pc \in {"download", "downloaded"}
        /\ pc \in {"download", "downloaded"} => TmpFiles = {path}
        /\ pc \in {"loop", "done", "aborted"} => TmpFiles = {}

\* an exception left the body of the second iteration, after its download
Wit_C7_CleanedAfterException ==
    /\ prog = "transcribe" /\ pc = "aborted" /\ idx = 2
    /\ calls # <<>> /\ calls[Len(calls)].idx = 2 /\ calls[Len(calls)].fn = "download"
    /\ calls[Len(calls)].ok
    /\ TmpFiles = {}

\* the token could not be obtained: a credential is missing, the request
\* failed, or the response carries no access_token
TokenNotObtained ==
    \/ args.client_id = <<>> \/ args.client_secret = <<>>
    \/ resp[1].err \/ resp[1].status # 200 \/ resp[1].json # "dict"
    \/ resp[1].token.t \in {"missing", "null"}
    \/ (resp[1].token.t = "str" /\ resp[1].token.s = <<>>)

\* C8: when the access token cannot be obtained the transcription run stops
\* before the first row: no download, no temporary file, no transcription, no
\* output file.
Thm_C8_NoTokenNoRun ==
    (prog = "transcribe" /\ pc # "token" /\ idx = 0 /\ TokenNotObtained) =>
        /\ pc = "done"
        /\ access_token = None
        /\ calls = <<>>
        /\ files = <<>>
        /\ results = <<>>
        /\ output = None
        /\ ~ENABLED Next

\* the credentials are set and the response is an object without access_token
Wit_C8_ResponseWithoutToken ==
    /\ prog = "transcribe" /\ pc = "done" /\ idx = 0
    /\ args.client_id # <<>> /\ args.client_secret # <<>>
    /\ resp # None /\ ~resp[1].err /\ resp[1].status = 200 /\ resp[1].json = "dict"
    /\ resp[1].token.t = "missing"
    /\ output = None

\* the rows whose iteration is over
RowsDone == IF pc \in {"download", "downloaded"} \/ (pc = "aborted" /\ idx > 0)
            THEN idx - 1 ELSE idx

\* recording_link of a row of TransRows, stripped
StrippedLinkOf(r) == IF r.event_id = "e1" THEN <<"x">> ELSE <<"y">>

\* C10: once token and model are there, results holds one row per input row,
\* in input order, whatever fails: a failed download gives a row with an empty
\* transcript and an error starting with "Download failed:", and no
\* transcription; a failed transcription gives a row with its error; and the
\* rows after a failure are still produced and written.
Thm_C10_OneResultPerRow ==
    prog = "transcribe" =>
        /\ Len(results) = RowsDone
        /\ \A k \in 1..Len(results) :
             LET st == Stages(k)
                 res == results[k]
             IN /\ res.event_id = rows[k].event_id
                /\ res.loan_id = rows[k].loan_id
                /\ res.recording_link = StrippedLinkOf(rows[k])
                /\ Len(st) >= 1 /\ st[1].fn = "download"
                /\ ~st[1].ok =>
                     /\ Len(st) = 1
                     /\ res.transcript = <<>>
                     /\ Slice(res.error, 0, 16) = <<"D", "o", "w", "n", "l", "o", "a", "d", " ", "f", "a", "i", "l", "e", "d", ":">>
                /\ st[1].ok =>
                     /\ Len(st) = 2 /\ st[2].fn = "transcribe"
                     /\ ~st[2].ok => (res.transcript = <<>> /\ res.error = st[2].msg)
                     /\ st[2].ok => res.error = <<>>
        /\ pc = "done" /\ access_token # None =>
             (Len(results) = nrows /\ output = Some(results))
        /\ (pc = "loop" /\ idx < nrows) => ENABLED TransNextRow

\* the first download failed, the second row was transcribed, both rows are
\* in the output
Wit_C10_RowAfterFailedDownload ==
    /\ prog = "transcribe" /\ pc = "done" /\ nrows = 2
    /\ output # None /\ Len(output[1]) = 2
    /\ Slice(output[1][1].error, 0, 16) = <<"D", "o", "w", "n", "l", "o", "a", "d", " ", "f", "a", "i", "l", "e", "d", ":">>
    /\ output[1][2].error = <<>>
    /\ output[1][2].transcript # <<>>

====
